---- MODULE Spec2Model ----
(***************************************************************************)
(* Model of the gateway layer of src/app/src-tauri/src/lib.rs:             *)
(*   exec_handler          the sandboxed command execution (SSE stream)    *)
(*   set_ollama_url /                                                      *)
(*   get_ollama_url        the mutex-guarded upstream address              *)
(*   proxy_handler         the reverse proxy                               *)
(*   check_ollama_servers  the concurrent liveness prober                  *)
(*                                                                         *)
(* Strings are modelled as sequences of atoms.  An atom is a literal       *)
(* piece of text: either one special character (a whitespace character, a  *)
(* shell metacharacter) or a run of ordinary characters.  The string is    *)
(* the concatenation of its atoms, so splitting, comparing and formatting  *)
(* are computed, not assumed.                                              *)
(***************************************************************************)
EXTENDS Integers, Sequences, FiniteSets, TLC

\* ------------------------------------------------------------------ bounds
\* Longest command line, in atoms.
MaxCmdLen == 5
\* Longest list of candidate addresses of a probe batch.
MaxUrls == 3
\* Most lines a spawned process writes to one of its output streams.
MaxLines == 2
\* Longest probe batch of the specification of all operations together.
MaxBatch == 2

\* ------------------------------------------------------- exec_handler: data
\* The forbidden shell metacharacters (lib.rs:125).  "U+0060" stands for the
\* grave accent, which a string of this language cannot hold.
ForbiddenChars == {"&", ";", "|", "<", ">", "(", ")", "U+0060", "$"}

\* The characters str::split_whitespace splits on (lib.rs:131); the ones a
\* query string can carry.
WhitespaceChars == {" ", "\t", "\n"}

UNAUTHORIZED_MESSAGE == <<"[unauthorized]">>

allowed_subcommands ==
    {"serve", "create", "show", "run", "stop", "pull",
     "push", "list", "ps", "cp", "rm", "help", "--version", "--help"}

\* The one program name a command line may start with (lib.rs:137).
authorized_name == "ollama"

\* The executable handed to the process launcher (non-windows build, lib.rs:164;
\* the windows build launches "ollama", lib.rs:161).
program == "/usr/local/bin/ollama"

\* The atoms command lines are drawn from.
CmdAtoms == {"ollama", "list", "bogus", " ", "$", "&"}

RECURSIVE SeqsUpTo(_, _)
SeqsUpTo(S, n) ==
    IF n = 0 THEN {<<>>}
    ELSE LET shorter == SeqsUpTo(S, n - 1)
         IN  shorter \cup {Append(s, a) : s \in {t \in shorter : Len(t) = n - 1}, a \in S}

\* Every command line a client may submit, within the bound.
Commands == SeqsUpTo(CmdAtoms, MaxCmdLen)

\* The command lines of the two-request specification: one of each kind.
Commands2 ==
    { <<>>, <<"$">>, <<"bogus">>, <<"ollama", "$", "list">>,
      <<"ollama", " ", "bogus">>, <<"ollama", " ", "list">> }

ExecIds == {"e1", "e2"}

\* Mutant: the last character of the forbidden set is not looked for.
HasForbiddenChar_NoDollar(c) == \E i \in 1..Len(c) : c[i] \in ForbiddenChars \ {"$"}

\* params.cmd.chars().any(|c| FORBIDDEN.contains(c))   (lib.rs:125)
HasForbiddenChar(c) == \E i \in 1..Len(c) : c[i] \in ForbiddenChars

\* params.cmd.split_whitespace().collect()   (lib.rs:131): the maximal runs of
\* non-whitespace characters, in order, each as one string.
RECURSIVE SplitFrom(_, _, _)
SplitFrom(c, i, cur) ==
    IF i > Len(c)
    THEN IF cur = "" THEN <<>> ELSE <<cur>>
    ELSE IF c[i] \in WhitespaceChars
         THEN IF cur = "" THEN SplitFrom(c, i + 1, "")
                          ELSE <<cur>> \o SplitFrom(c, i + 1, "")
         ELSE SplitFrom(c, i + 1, cur \o c[i])

split_whitespace(c) == SplitFrom(c, 1, "")

\* Mutant: the subcommand allow-list is not consulted.
Validate_NoAllowList(c) ==
    IF HasForbiddenChar(c) THEN "forbidden_char"
    ELSE LET parts == split_whitespace(c)
         IN  IF parts = <<>> THEN "empty"
             ELSE IF parts[1] # authorized_name THEN "wrong_program"
             ELSE "spawn"

\* Mutant: the test for an empty token list is missing; no first token is not
\* the authorized program.
Validate_NoEmptyCheck(c) ==
    IF HasForbiddenChar(c) THEN "forbidden_char"
    ELSE LET parts == split_whitespace(c)
         IN  IF parts = <<>> THEN "wrong_program"
             ELSE IF parts[1] # authorized_name THEN "wrong_program"
             ELSE IF Len(parts) = 1 THEN "spawn"
             ELSE IF parts[2] \notin allowed_subcommands THEN "bad_subcommand"
             ELSE "spawn"

\* The validation of lib.rs:125-158, in the order of the code: which branch the
\* command line takes.
Validate(c) ==
    IF HasForbiddenChar(c) THEN "forbidden_char"
    ELSE LET parts == split_whitespace(c)
         IN  IF parts = <<>> THEN "empty"
             ELSE IF parts[1] # authorized_name THEN "wrong_program"
             ELSE IF Len(parts) = 1 THEN "spawn"
             ELSE IF parts[2] \notin allowed_subcommands THEN "bad_subcommand"
             ELSE "spawn"

\* Mutant: the slice starts one token late (&parts[2..]).
Args_SkipSubcommand(c) ==
    LET parts == split_whitespace(c)
    IN  IF Len(parts) = 1 THEN <<>> ELSE SubSeq(parts, 3, Len(parts))

\* args = &[] for a single token, &parts[1..] otherwise   (lib.rs:143-158)
Args(c) ==
    LET parts == split_whitespace(c)
    IN  IF Len(parts) = 1 THEN <<>> ELSE SubSeq(parts, 2, Len(parts))

\* Event::default().event(name).data(payload) and Event::default().data(line)
ErrorEvent(payload) == [event |-> "error", data |-> payload]
DoneEvent(payload) == [event |-> "done", data |-> payload]
DataEvent(line) == [event |-> "message", data |-> line]

\* Mutant: a wrong program name gets a message of its own.
RejectPayload_Leaky(verdict) ==
    IF verdict = "empty" THEN <<"Empty command received.">>
    ELSE IF verdict = "wrong_program" THEN <<"[unauthorized program]">>
    ELSE UNAUTHORIZED_MESSAGE

\* The payload of the event a rejected command line gets (lib.rs:127,133,139,154).
RejectPayload(verdict) ==
    IF verdict = "empty" THEN <<"Empty command received.">> ELSE UNAUTHORIZED_MESSAGE

\* format!("[ERROR: Failed to spawn command '{}'. Error: {}]", program, e)
SpawnErrorPayload(e) == <<"[ERROR: Failed to spawn command '", program, "'. Error: ", e, "]">>

\* format!("[COMMAND_FINISHED code={:?}]", status.code())
FinishedPayload(code) == <<"[COMMAND_FINISHED code=", code, "]">>

\* format!("[ERROR: Failed to wait for command. Error: {}]", e)
WaitErrorPayload(e) == <<"[ERROR: Failed to wait for command. Error: ", e, "]">>

\* What the operating system may answer to command.spawn() and child.wait().
SpawnErrors == {"No such file or directory (os error 2)"}
WaitErrors == {"No child processes (os error 10)"}
\* {:?} of status.code(): an exit code, or None for a process killed by a signal.
ExitCodes == {"Some(0)", "None"}

\* What a process writes to one stream: up to n lines.  Line k of a stream is
\* the text <<stream, k>>; a line that is not valid UTF-8 is marked so, and
\* next_line() answers Err for it.
Line(s, k, valid) == [text |-> <<s, ToString(k)>>, utf8 |-> valid]

RECURSIVE Outputs(_, _, _)
Outputs(s, n, valids) ==
    IF n = 0 THEN {<<>>}
    ELSE LET shorter == Outputs(s, n - 1, valids)
         IN  shorter \cup {Append(q, Line(s, n, v)) :
                              q \in {t \in shorter : Len(t) = n - 1}, v \in valids}

\* The (stdout, stderr) contents of a spawned process.
StreamContents == Outputs("stdout", MaxLines, BOOLEAN) \X Outputs("stderr", MaxLines, BOOLEAN)
StreamContents2 == Outputs("stdout", MaxLines, {TRUE}) \X Outputs("stderr", MaxLines, {TRUE})

\* ------------------------------------------- ConfigStore and proxy: data
\* Option<String>: None is <<>>, Some(s) is <<s>>.
None == <<>>
Some(x) == <<x>>

\* The addresses the front end may store.
UrlValues == {"http://host:1234", "http://other:8080"}
OptUrls == {None} \cup {Some(u) : u \in UrlValues}

\* The fallback of proxy_handler (lib.rs:232).
DEFAULT_OLLAMA_URL == "http://127.0.0.1:11434"

\* uri.path() and uri.query() of the inbound requests.
Paths == {"/api/tags", "/v1/models"}
Queries == {None, Some(""), Some("a=1")}

\* Option::unwrap_or
unwrap_or(opt, default) == IF opt = None THEN default ELSE opt[1]

\* Mutant: the query string is left out of the target.
TargetUrl_NoQuery(stored, path, query) == unwrap_or(stored, DEFAULT_OLLAMA_URL) \o path

\* let query = uri.query().unwrap_or("");                       (lib.rs:222)
\* let base_url = guard.as_deref().unwrap_or("http://127.0.0.1:11434");
\* format!("{}{}?{}", base_url, path, query)                    (lib.rs:230-236)
TargetUrl(stored, path, query) ==
    unwrap_or(stored, DEFAULT_OLLAMA_URL) \o path \o "?" \o unwrap_or(query, "")

INTERNAL_SERVER_ERROR == 500
BAD_GATEWAY == 502
\* What reqwest may answer to send(): a response with a status, or an error.
UpstreamStatuses == {200, 404}
UpstreamErrors == {"connection refused", "timeout", "dns failure"}

Setters == {"s1", "s2"}
Getters == {"g1"}
Proxies == {"p1"}

\* ------------------------------------------------ check_ollama_servers: data
\* The candidate addresses; a list may name an address more than once.
Addrs == {"http://a:11434", "http://b:11434"}
UrlLists == SeqsUpTo(Addrs, MaxUrls)

\* .timeout(Duration::from_millis(2500))   (lib.rs:75)
PROBE_TIMEOUT_MS == 2500

\* How a probe can end: a 2xx response, another response, the timeout, a
\* connection error (send() answers Err for both), or the task panicking.
ProbeAnswers == {"2xx", "non-2xx", "connection error", "panic"}
ProbeOutcomes == ProbeAnswers \cup {"timeout"}

\* Mutant: every response counts as a success (the is_success() guard is lost).
ProbeResult_AnyResponse(url, outcome) ==
    IF outcome \in {"2xx", "non-2xx"} THEN [joined |-> TRUE, value |-> Some(url)]
    ELSE IF outcome = "panic" THEN [joined |-> FALSE, value |-> None]
    ELSE [joined |-> TRUE, value |-> None]

\* What awaiting the JoinHandle of a probe task gives (lib.rs:74-89):
\* Ok(Some(url)) after a 2xx response, Ok(None) after any other response or
\* an error of send(), Err(JoinError) when the task did not run to its end.
ProbeResult(url, outcome) ==
    IF outcome = "2xx" THEN [joined |-> TRUE, value |-> Some(url)]
    ELSE IF outcome = "panic" THEN [joined |-> FALSE, value |-> None]
    ELSE [joined |-> TRUE, value |-> None]

\* Mutant: the successes are collected into a list without repetitions.
RECURSIVE filter_map_Dedup(_)
filter_map_Dedup(results) ==
    IF results = <<>> THEN <<>>
    ELSE LET res == Head(results)
             rest == filter_map_Dedup(Tail(results))
         IN  IF res.joined /\ res.value # None
                  /\ ~\E k \in 1..Len(rest) : rest[k] = res.value[1]
             THEN <<res.value[1]>> \o rest
             ELSE rest

\* results.into_iter().filter_map(|res| res.ok().flatten()).collect()   (lib.rs:94-97)
RECURSIVE filter_map(_)
filter_map(results) ==
    IF results = <<>> THEN <<>>
    ELSE LET res == Head(results)
             rest == filter_map(Tail(results))
         IN  IF res.joined /\ res.value # None THEN <<res.value[1]>> \o rest ELSE rest

\* ---------------------------------------------------------------- state
VARIABLES
    exec_pc,        \* per exec request: idle, start, select, wait, yielded, done
    cmd,            \* params.cmd of the request
    events,         \* the events the stream of the request has yielded so far
    spawned,        \* the calls of command.spawn() the request made
    stdout_reader,  \* what is left to read of the stdout of the child
    stderr_reader,  \* what is left to read of the stderr of the child
    disabled,       \* the select! branches disabled in the current iteration
    wait_result,    \* history: what child.wait().await answered, None before it has
    written,        \* history: the lines the child wrote to stdout and to stderr
    ollama_url,     \* AppSettings.ollama_url: the value inside the Mutex
    mutex,          \* who holds the Mutex: "free" or a task
    last_set,       \* history: the argument of the latest assignment by set_ollama_url
    set_pc,         \* per set_ollama_url call: idle, lock, assign
    new_url,        \* the argument of the call
    get_pc,         \* per get_ollama_url call: idle, lock, clone, done
    get_result,     \* what the call returned
    proxy_pc,       \* per proxied request: idle, lock, format, collect, send, await, done
    req,            \* the path and query of the inbound request
    target_url,     \* the local target_url of the request
    upstream_calls, \* the URLs the request has sent upstream requests to
    upstream_outcome, \* how the upstream call of the request ended
    response,       \* what proxy_handler returned
    snapshots,      \* history: the values the request read out of the Mutex
    body,           \* history: how body.collect().await ended: read or failed
    probe_pc,       \* check_ollama_servers: idle, spawn, join, done
    urls,           \* the argument of the call
    tasks,          \* the probe tasks spawned so far, in spawn order
    last_finished,  \* history: the probe task that ended most recently, 0 before any has
    probe_result    \* what the call returned

execVars == <<exec_pc, cmd, events, spawned, stdout_reader, stderr_reader, disabled, wait_result,
              written>>

configVars == <<ollama_url, mutex, last_set, set_pc, new_url, get_pc, get_result>>

proxyVars == <<proxy_pc, req, target_url, upstream_calls, upstream_outcome, response,
               snapshots, body>>

probeVars == <<probe_pc, urls, tasks, probe_result, last_finished>>

notExecVars == <<configVars, proxyVars, probeVars>>

vars == <<execVars, configVars, proxyVars, probeVars>>

InitExec ==
    /\ exec_pc = [e \in ExecIds |-> "idle"]
    /\ cmd = [e \in ExecIds |-> <<>>]
    /\ events = [e \in ExecIds |-> <<>>]
    /\ spawned = [e \in ExecIds |-> <<>>]
    /\ stdout_reader = [e \in ExecIds |-> <<>>]
    /\ stderr_reader = [e \in ExecIds |-> <<>>]
    /\ disabled = [e \in ExecIds |-> {}]
    /\ wait_result = [e \in ExecIds |-> None]
    /\ written = [e \in ExecIds |-> <<<<>>, <<>>>>]

\* AppSettings { ollama_url: Mutex::new(None) }   (lib.rs:348-350)
InitConfig ==
    /\ ollama_url = None
    /\ mutex = "free"
    /\ last_set = None
    /\ set_pc = [t \in Setters |-> "idle"]
    /\ new_url = [t \in Setters |-> None]
    /\ get_pc = [t \in Getters |-> "idle"]
    /\ get_result = [t \in Getters |-> None]

NoResponse == [ok |-> FALSE, status |-> 0]

InitProxy ==
    /\ proxy_pc = [p \in Proxies |-> "idle"]
    /\ req = [p \in Proxies |-> [path |-> "", query |-> None]]
    /\ target_url = [p \in Proxies |-> ""]
    /\ upstream_calls = [p \in Proxies |-> <<>>]
    /\ upstream_outcome = [p \in Proxies |-> ""]
    /\ response = [p \in Proxies |-> NoResponse]
    /\ snapshots = [p \in Proxies |-> <<>>]
    /\ body = [p \in Proxies |-> ""]

InitProbe ==
    /\ probe_pc = "idle"
    /\ urls = <<>>
    /\ tasks = <<>>
    /\ probe_result = None
    /\ last_finished = 0

Init == InitExec /\ InitConfig /\ InitProxy /\ InitProbe

\* --------------------------------------------------- exec_handler: actions
\* GET /exec?cmd=...: the handler builds the stream and returns it (lib.rs:116-122, 211).
ExecSubmit(e, cmds) ==
    /\ exec_pc[e] = "idle"
    /\ \E c \in cmds : cmd' = [cmd EXCEPT ![e] = c]
    /\ exec_pc' = [exec_pc EXCEPT ![e] = "start"]
    /\ UNCHANGED <<events, spawned, stdout_reader, stderr_reader, disabled, wait_result, written>>
    /\ UNCHANGED notExecVars

\* First poll of the stream, a command line that fails validation: one error
\* event is yielded (lib.rs:125-156).
ExecReject(e) ==
    /\ exec_pc[e] = "start"
    /\ Validate(cmd[e]) # "spawn"
    /\ events' = [events EXCEPT ![e] = Append(@, ErrorEvent(RejectPayload(Validate(cmd[e]))))]
    /\ exec_pc' = [exec_pc EXCEPT ![e] = "yielded"]
    /\ UNCHANGED <<cmd, spawned, stdout_reader, stderr_reader, disabled, wait_result, written>>
    /\ UNCHANGED notExecVars

\* Mutant: after a failed spawn the stream goes on to the done event.
ExecSpawn_DoneAfterFailure(e, contents) ==
    /\ exec_pc[e] = "start"
    /\ Validate(cmd[e]) = "spawn"
    /\ \/ \E io \in contents :
            /\ spawned' = [spawned EXCEPT ![e] =
                              Append(@, [program |-> program, args |-> Args(cmd[e]), ok |-> TRUE])]
            /\ stdout_reader' = [stdout_reader EXCEPT ![e] = io[1]]
            /\ stderr_reader' = [stderr_reader EXCEPT ![e] = io[2]]
            /\ written' = [written EXCEPT ![e] = io]
            /\ exec_pc' = [exec_pc EXCEPT ![e] = "select"]
            /\ UNCHANGED events
       \/ \E err \in SpawnErrors :
            /\ spawned' = [spawned EXCEPT ![e] =
                              Append(@, [program |-> program, args |-> Args(cmd[e]), ok |-> FALSE])]
            /\ events' = [events EXCEPT ![e] =
                              @ \o <<ErrorEvent(SpawnErrorPayload(err)), DoneEvent(FinishedPayload("None"))>>]
            /\ exec_pc' = [exec_pc EXCEPT ![e] = "yielded"]
            /\ UNCHANGED <<stdout_reader, stderr_reader, written>>
    /\ UNCHANGED <<cmd, disabled, wait_result>>
    /\ UNCHANGED notExecVars

\* First poll of the stream, a command line that passes validation:
\* command.spawn() is called with the argument vector (lib.rs:160-179, 205-207).
ExecSpawn(e, contents) ==
    /\ exec_pc[e] = "start"
    /\ Validate(cmd[e]) = "spawn"
    /\ \/ \E io \in contents :
            /\ spawned' = [spawned EXCEPT ![e] =
                              Append(@, [program |-> program, args |-> Args(cmd[e]), ok |-> TRUE])]
            /\ stdout_reader' = [stdout_reader EXCEPT ![e] = io[1]]
            /\ stderr_reader' = [stderr_reader EXCEPT ![e] = io[2]]
            /\ written' = [written EXCEPT ![e] = io]
            /\ exec_pc' = [exec_pc EXCEPT ![e] = "select"]
            /\ UNCHANGED events
       \/ \E err \in SpawnErrors :
            /\ spawned' = [spawned EXCEPT ![e] =
                              Append(@, [program |-> program, args |-> Args(cmd[e]), ok |-> FALSE])]
            /\ events' = [events EXCEPT ![e] = Append(@, ErrorEvent(SpawnErrorPayload(err)))]
            /\ exec_pc' = [exec_pc EXCEPT ![e] = "yielded"]
            /\ UNCHANGED <<stdout_reader, stderr_reader, written>>
    /\ UNCHANGED <<cmd, disabled, wait_result>>
    /\ UNCHANGED notExecVars

\* reader.next_line(): Ok(Some(line)) for a valid line, Err for a line that is
\* not valid UTF-8 (the line is consumed), Ok(None) at the end of the stream.
next_line(q) ==
    IF q = <<>> THEN [kind |-> "eof", rest |-> q]
    ELSE IF Head(q).utf8 THEN [kind |-> "line", text |-> Head(q).text, rest |-> Tail(q)]
    ELSE [kind |-> "err", rest |-> Tail(q)]

\* One branch of the select! completes (lib.rs:182-191): with a line, the line
\* is yielded as a data event and the loop starts its next iteration; with
\* anything else the pattern Ok(Some(line)) does not match and the branch is
\* disabled for the rest of this iteration.
SelectBranch(e, branch, reader) ==
    /\ exec_pc[e] = "select"
    /\ branch \notin disabled[e]
    /\ LET r == next_line(reader[e])
       IN  IF r.kind = "line"
           THEN /\ events' = [events EXCEPT ![e] = Append(@, DataEvent(r.text))]
                /\ disabled' = [disabled EXCEPT ![e] = {}]
                /\ reader' = [reader EXCEPT ![e] = r.rest]
           ELSE /\ disabled' = [disabled EXCEPT ![e] = @ \cup {branch}]
                /\ reader' = [reader EXCEPT ![e] = r.rest]
                /\ UNCHANGED events

PollStdout(e) ==
    /\ SelectBranch(e, "stdout", stdout_reader)
    /\ UNCHANGED <<exec_pc, cmd, spawned, stderr_reader, wait_result, written>>
    /\ UNCHANGED notExecVars

PollStderr(e) ==
    /\ SelectBranch(e, "stderr", stderr_reader)
    /\ UNCHANGED <<exec_pc, cmd, spawned, stdout_reader, wait_result, written>>
    /\ UNCHANGED notExecVars

\* else => break: every branch is disabled (lib.rs:192).
SelectElse(e) ==
    /\ exec_pc[e] = "select"
    /\ disabled[e] = {"stdout", "stderr"}
    /\ exec_pc' = [exec_pc EXCEPT ![e] = "wait"]
    /\ disabled' = [disabled EXCEPT ![e] = {}]
    /\ UNCHANGED <<cmd, events, spawned, stdout_reader, stderr_reader, wait_result, written>>
    /\ UNCHANGED notExecVars

\* Mutant: the Err arm of the match falls through to the done event.
ExecWait_AlsoDone(e) ==
    /\ exec_pc[e] = "wait"
    /\ \/ \E code \in ExitCodes :
            /\ wait_result' = [wait_result EXCEPT ![e] = Some([ok |-> TRUE, value |-> code])]
            /\ events' = [events EXCEPT ![e] = Append(@, DoneEvent(FinishedPayload(code)))]
       \/ \E err \in WaitErrors :
            /\ wait_result' = [wait_result EXCEPT ![e] = Some([ok |-> FALSE, value |-> err])]
            /\ events' = [events EXCEPT ![e] =
                          @ \o <<ErrorEvent(WaitErrorPayload(err)), DoneEvent(FinishedPayload("None"))>>]
    /\ exec_pc' = [exec_pc EXCEPT ![e] = "yielded"]
    /\ UNCHANGED <<cmd, spawned, stdout_reader, stderr_reader, disabled, written>>
    /\ UNCHANGED notExecVars

\* Mutant: a failed wait is reported as a process that ended without a code.
ExecWait_DoneOnError(e) ==
    /\ exec_pc[e] = "wait"
    /\ \/ \E code \in ExitCodes :
            /\ wait_result' = [wait_result EXCEPT ![e] = Some([ok |-> TRUE, value |-> code])]
            /\ events' = [events EXCEPT ![e] = Append(@, DoneEvent(FinishedPayload(code)))]
       \/ \E err \in WaitErrors :
            /\ wait_result' = [wait_result EXCEPT ![e] = Some([ok |-> FALSE, value |-> err])]
            /\ events' = [events EXCEPT ![e] = Append(@, DoneEvent(FinishedPayload("None")))]
    /\ exec_pc' = [exec_pc EXCEPT ![e] = "yielded"]
    /\ UNCHANGED <<cmd, spawned, stdout_reader, stderr_reader, disabled, written>>
    /\ UNCHANGED notExecVars

\* child.wait().await and the terminal event (lib.rs:196-203).
ExecWait(e) ==
    /\ exec_pc[e] = "wait"
    /\ \/ \E code \in ExitCodes :
            /\ wait_result' = [wait_result EXCEPT ![e] = Some([ok |-> TRUE, value |-> code])]
            /\ events' = [events EXCEPT ![e] = Append(@, DoneEvent(FinishedPayload(code)))]
       \/ \E err \in WaitErrors :
            /\ wait_result' = [wait_result EXCEPT ![e] = Some([ok |-> FALSE, value |-> err])]
            /\ events' = [events EXCEPT ![e] = Append(@, ErrorEvent(WaitErrorPayload(err)))]
    /\ exec_pc' = [exec_pc EXCEPT ![e] = "yielded"]
    /\ UNCHANGED <<cmd, spawned, stdout_reader, stderr_reader, disabled, written>>
    /\ UNCHANGED notExecVars

\* The poll after the last yield: the stream block returns, the stream ends
\* (lib.rs:128,134,140,155,209).
ExecEnd(e) ==
    /\ exec_pc[e] = "yielded"
    /\ exec_pc' = [exec_pc EXCEPT ![e] = "done"]
    /\ UNCHANGED <<cmd, events, spawned, stdout_reader, stderr_reader, disabled, wait_result, written>>
    /\ UNCHANGED notExecVars

exec_handler(e, cmds, contents) ==
    \/ ExecSubmit(e, cmds)
    \/ ExecReject(e)
    \/ ExecSpawn(e, contents)
    \/ PollStdout(e)
    \/ PollStderr(e)
    \/ SelectElse(e)
    \/ ExecWait(e)
    \/ ExecEnd(e)

\* One request, every command line and every process output within the bounds.
NextExec == exec_handler("e1", Commands, StreamContents)
SpecExec == Init /\ [][NextExec]_vars

\* Two requests at the same time.
NextExec2 == \E e \in ExecIds : exec_handler(e, Commands2, StreamContents2)
SpecExec2 == Init /\ [][NextExec2]_vars

\* ------------------------------------- set_ollama_url and get_ollama_url
\* set_ollama_url(new_url) is invoked (lib.rs:41-45).
SetCall(t) ==
    /\ set_pc[t] = "idle"
    /\ \E u \in OptUrls : new_url' = [new_url EXCEPT ![t] = u]
    /\ set_pc' = [set_pc EXCEPT ![t] = "lock"]
    /\ UNCHANGED <<ollama_url, mutex, last_set, get_pc, get_result>>
    /\ UNCHANGED <<execVars, proxyVars, probeVars>>

\* settings.ollama_url.lock().unwrap()   (lib.rs:47)
SetLock(t) ==
    /\ set_pc[t] = "lock"
    /\ mutex = "free"
    /\ mutex' = t
    /\ set_pc' = [set_pc EXCEPT ![t] = "assign"]
    /\ UNCHANGED <<ollama_url, last_set, new_url, get_pc, get_result>>
    /\ UNCHANGED <<execVars, proxyVars, probeVars>>

\* *guard = new_url; the guard is dropped at the end of the statement and the
\* call returns Ok(())   (lib.rs:47-48).
SetAssign(t) ==
    /\ set_pc[t] = "assign"
    /\ mutex = t
    /\ ollama_url' = new_url[t]
    /\ last_set' = new_url[t]
    /\ mutex' = "free"
    /\ set_pc' = [set_pc EXCEPT ![t] = "idle"]
    /\ UNCHANGED <<new_url, get_pc, get_result>>
    /\ UNCHANGED <<execVars, proxyVars, probeVars>>

set_ollama_url(t) == SetCall(t) \/ SetLock(t) \/ SetAssign(t)

\* get_ollama_url() is invoked (lib.rs:52-55).
GetCall(t) ==
    /\ get_pc[t] \in {"idle", "done"}
    /\ get_pc' = [get_pc EXCEPT ![t] = "lock"]
    /\ UNCHANGED <<ollama_url, mutex, last_set, set_pc, new_url, get_result>>
    /\ UNCHANGED <<execVars, proxyVars, probeVars>>

\* settings.ollama_url.lock().unwrap()   (lib.rs:58)
GetLock(t) ==
    /\ get_pc[t] = "lock"
    /\ mutex = "free"
    /\ mutex' = t
    /\ get_pc' = [get_pc EXCEPT ![t] = "clone"]
    /\ UNCHANGED <<ollama_url, last_set, set_pc, new_url, get_result>>
    /\ UNCHANGED <<execVars, proxyVars, probeVars>>

\* Mutant: the default address is substituted for None.
GetClone_WithDefault(t) ==
    /\ get_pc[t] = "clone"
    /\ mutex = t
    /\ get_result' = [get_result EXCEPT ![t] = Some(unwrap_or(ollama_url, DEFAULT_OLLAMA_URL))]
    /\ mutex' = "free"
    /\ get_pc' = [get_pc EXCEPT ![t] = "done"]
    /\ UNCHANGED <<ollama_url, last_set, set_pc, new_url>>
    /\ UNCHANGED <<execVars, proxyVars, probeVars>>

\* let url = guard.clone(); the guard is dropped at the end of the statement
\* and the call returns Ok(url)   (lib.rs:58-59).
GetClone(t) ==
    /\ get_pc[t] = "clone"
    /\ mutex = t
    /\ get_result' = [get_result EXCEPT ![t] = ollama_url]
    /\ mutex' = "free"
    /\ get_pc' = [get_pc EXCEPT ![t] = "done"]
    /\ UNCHANGED <<ollama_url, last_set, set_pc, new_url>>
    /\ UNCHANGED <<execVars, proxyVars, probeVars>>

get_ollama_url(t) == GetCall(t) \/ GetLock(t) \/ GetClone(t)

\* ---------------------------------------------------------- proxy_handler
\* A request to /api/* or /v1/* arrives (lib.rs:214-222, 318-319).
ProxyCall(p) ==
    /\ proxy_pc[p] \in {"idle", "done"}
    /\ \E path \in Paths, query \in Queries :
          req' = [req EXCEPT ![p] = [path |-> path, query |-> query]]
    /\ target_url' = [target_url EXCEPT ![p] = ""]
    /\ upstream_calls' = [upstream_calls EXCEPT ![p] = <<>>]
    /\ upstream_outcome' = [upstream_outcome EXCEPT ![p] = ""]
    /\ response' = [response EXCEPT ![p] = NoResponse]
    /\ snapshots' = [snapshots EXCEPT ![p] = <<>>]
    /\ body' = [body EXCEPT ![p] = ""]
    /\ proxy_pc' = [proxy_pc EXCEPT ![p] = "lock"]
    /\ UNCHANGED <<ollama_url, mutex>>
    /\ UNCHANGED <<execVars, probeVars, last_set, set_pc, new_url, get_pc, get_result>>

\* settings.ollama_url.lock().unwrap()   (lib.rs:227-228)
ProxyLock(p) ==
    /\ proxy_pc[p] = "lock"
    /\ mutex = "free"
    /\ mutex' = p
    /\ proxy_pc' = [proxy_pc EXCEPT ![p] = "format"]
    /\ UNCHANGED <<ollama_url, req, target_url, upstream_calls, upstream_outcome, response,
                   snapshots, body>>
    /\ UNCHANGED <<execVars, probeVars, last_set, set_pc, new_url, get_pc, get_result>>

\* Mutant: the guard is not confined to a block and lives on across the awaits.
ProxyFormat_KeepsGuard(p) ==
    /\ proxy_pc[p] = "format"
    /\ mutex = p
    /\ target_url' = [target_url EXCEPT ![p] = TargetUrl(ollama_url, req[p].path, req[p].query)]
    /\ snapshots' = [snapshots EXCEPT ![p] = Append(@, ollama_url)]
    /\ proxy_pc' = [proxy_pc EXCEPT ![p] = "collect"]
    /\ UNCHANGED <<ollama_url, mutex, req, upstream_calls, upstream_outcome, response, body>>
    /\ UNCHANGED <<execVars, probeVars, last_set, set_pc, new_url, get_pc, get_result>>

\* Mutant: the default is written into the store when no address is stored
\* (get_or_insert_with in the place of as_deref().unwrap_or).
ProxyFormat_StoresDefault(p) ==
    /\ proxy_pc[p] = "format"
    /\ mutex = p
    /\ target_url' = [target_url EXCEPT ![p] = TargetUrl(ollama_url, req[p].path, req[p].query)]
    /\ ollama_url' = Some(unwrap_or(ollama_url, DEFAULT_OLLAMA_URL))
    /\ snapshots' = [snapshots EXCEPT ![p] = Append(@, ollama_url)]
    /\ mutex' = "free"
    /\ proxy_pc' = [proxy_pc EXCEPT ![p] = "collect"]
    /\ UNCHANGED <<req, upstream_calls, upstream_outcome, response, body>>
    /\ UNCHANGED <<execVars, probeVars, last_set, set_pc, new_url, get_pc, get_result>>

\* The block computes target_url and drops the guard at its end (lib.rs:230-238).
ProxyFormat(p) ==
    /\ proxy_pc[p] = "format"
    /\ mutex = p
    /\ target_url' = [target_url EXCEPT ![p] = TargetUrl(ollama_url, req[p].path, req[p].query)]
    /\ snapshots' = [snapshots EXCEPT ![p] = Append(@, ollama_url)]
    /\ mutex' = "free"
    /\ proxy_pc' = [proxy_pc EXCEPT ![p] = "collect"]
    /\ UNCHANGED <<ollama_url, req, upstream_calls, upstream_outcome, response, body>>
    /\ UNCHANGED <<execVars, probeVars, last_set, set_pc, new_url, get_pc, get_result>>

\* Mutant: a body that cannot be read is forwarded as an empty body.
ProxyCollect_SendsAnyway(p) ==
    /\ proxy_pc[p] = "collect"
    /\ \/ body' = [body EXCEPT ![p] = "read"]
       \/ body' = [body EXCEPT ![p] = "failed"]
    /\ proxy_pc' = [proxy_pc EXCEPT ![p] = "send"]
    /\ UNCHANGED <<ollama_url, mutex, req, target_url, upstream_calls, upstream_outcome, response,
                   snapshots>>
    /\ UNCHANGED <<execVars, probeVars, last_set, set_pc, new_url, get_pc, get_result>>

\* body.collect().await: the body is read, or the request fails with 500
\* (lib.rs:242-248).
ProxyCollect(p) ==
    /\ proxy_pc[p] = "collect"
    /\ \/ /\ body' = [body EXCEPT ![p] = "read"]
          /\ proxy_pc' = [proxy_pc EXCEPT ![p] = "send"]
          /\ UNCHANGED response
       \/ /\ body' = [body EXCEPT ![p] = "failed"]
          /\ response' = [response EXCEPT ![p] = [ok |-> FALSE, status |-> INTERNAL_SERVER_ERROR]]
          /\ proxy_pc' = [proxy_pc EXCEPT ![p] = "done"]
    /\ UNCHANGED <<ollama_url, mutex, req, target_url, upstream_calls, upstream_outcome, snapshots>>
    /\ UNCHANGED <<execVars, probeVars, last_set, set_pc, new_url, get_pc, get_result>>

\* Mutant: the address is read out of the store again when the request is sent.
ProxySend_Reread(p) ==
    /\ proxy_pc[p] = "send"
    /\ upstream_calls' = [upstream_calls EXCEPT ![p] =
                              Append(@, TargetUrl(ollama_url, req[p].path, req[p].query))]
    /\ proxy_pc' = [proxy_pc EXCEPT ![p] = "await"]
    /\ UNCHANGED <<ollama_url, mutex, req, target_url, upstream_outcome, response, snapshots, body>>
    /\ UNCHANGED <<execVars, probeVars, last_set, set_pc, new_url, get_pc, get_result>>

\* The request is built and sent to target_url (lib.rs:250-256).
ProxySend(p) ==
    /\ proxy_pc[p] = "send"
    /\ upstream_calls' = [upstream_calls EXCEPT ![p] = Append(@, target_url[p])]
    /\ proxy_pc' = [proxy_pc EXCEPT ![p] = "await"]
    /\ UNCHANGED <<ollama_url, mutex, req, target_url, upstream_outcome, response, snapshots, body>>
    /\ UNCHANGED <<execVars, probeVars, last_set, set_pc, new_url, get_pc, get_result>>

\* Mutant: a failed upstream call is sent again.
ProxyUpstream_Retry(p) ==
    /\ proxy_pc[p] = "await"
    /\ \/ \E status \in UpstreamStatuses :
            /\ upstream_outcome' = [upstream_outcome EXCEPT ![p] = "response"]
            /\ response' = [response EXCEPT ![p] = [ok |-> TRUE, status |-> status]]
            /\ proxy_pc' = [proxy_pc EXCEPT ![p] = "done"]
       \/ \E err \in UpstreamErrors :
            /\ upstream_outcome' = [upstream_outcome EXCEPT ![p] = err]
            /\ proxy_pc' = [proxy_pc EXCEPT ![p] =
                               IF Len(upstream_calls[p]) < 2 THEN "send" ELSE "done"]
            /\ response' = [response EXCEPT ![p] =
                               IF Len(upstream_calls[p]) < 2 THEN @
                               ELSE [ok |-> FALSE, status |-> BAD_GATEWAY]]
    /\ UNCHANGED <<ollama_url, mutex, req, target_url, upstream_calls, snapshots, body>>
    /\ UNCHANGED <<execVars, probeVars, last_set, set_pc, new_url, get_pc, get_result>>

\* send().await ends: with a response, whose status is copied, or with an
\* error, which becomes 502 (lib.rs:256-275).
ProxyUpstream(p) ==
    /\ proxy_pc[p] = "await"
    /\ \/ \E status \in UpstreamStatuses :
            /\ upstream_outcome' = [upstream_outcome EXCEPT ![p] = "response"]
            /\ response' = [response EXCEPT ![p] = [ok |-> TRUE, status |-> status]]
       \/ \E err \in UpstreamErrors :
            /\ upstream_outcome' = [upstream_outcome EXCEPT ![p] = err]
            /\ response' = [response EXCEPT ![p] = [ok |-> FALSE, status |-> BAD_GATEWAY]]
    /\ proxy_pc' = [proxy_pc EXCEPT ![p] = "done"]
    /\ UNCHANGED <<ollama_url, mutex, req, target_url, upstream_calls, snapshots, body>>
    /\ UNCHANGED <<execVars, probeVars, last_set, set_pc, new_url, get_pc, get_result>>

proxy_handler(p) ==
    \/ ProxyCall(p)
    \/ ProxyLock(p)
    \/ ProxyFormat(p)
    \/ ProxyCollect(p)
    \/ ProxySend(p)
    \/ ProxyUpstream(p)

\* The control-plane calls and the proxied requests, interleaved.
NextConfig ==
    \/ \E t \in Setters : set_ollama_url(t)
    \/ \E t \in Getters : get_ollama_url(t)
    \/ \E p \in Proxies : proxy_handler(p)
SpecConfig == Init /\ [][NextConfig]_vars

\* ---------------------------------------------------- check_ollama_servers
\* check_ollama_servers(urls) is invoked; the iterator of probes is built but
\* not yet driven (lib.rs:63-90).
ProbeCall ==
    /\ probe_pc \in {"idle", "done"}
    /\ \E us \in UrlLists : urls' = us
    /\ tasks' = <<>>
    /\ probe_result' = None
    /\ last_finished' = 0
    /\ probe_pc' = "spawn"
    /\ UNCHANGED <<execVars, configVars, proxyVars>>

\* Mutant: each probe is awaited before the next one is spawned.
ProbeSpawn_Sequential ==
    /\ probe_pc = "spawn"
    /\ Len(tasks) < Len(urls)
    /\ \A i \in 1..Len(tasks) : tasks[i].outcome # ""
    /\ LET url == urls[Len(tasks) + 1]
       IN  tasks' = Append(tasks, [url |-> url, check_url |-> url \o "/v1/models", outcome |-> ""])
    /\ UNCHANGED <<probe_pc, urls, probe_result, last_finished>>
    /\ UNCHANGED <<execVars, configVars, proxyVars>>

\* join_all(checks) drives the iterator: the closure runs for the next url and
\* tokio::spawn starts its probe task (lib.rs:70-74, 92).
ProbeSpawn ==
    /\ probe_pc = "spawn"
    /\ Len(tasks) < Len(urls)
    /\ LET url == urls[Len(tasks) + 1]
       IN  tasks' = Append(tasks, [url |-> url, check_url |-> url \o "/v1/models", outcome |-> ""])
    /\ UNCHANGED <<probe_pc, urls, probe_result, last_finished>>
    /\ UNCHANGED <<execVars, configVars, proxyVars>>

\* The iterator is exhausted: the JoinAll future is awaited (lib.rs:92).
ProbeJoin ==
    /\ probe_pc = "spawn"
    /\ Len(tasks) = Len(urls)
    /\ probe_pc' = "join"
    /\ UNCHANGED <<urls, tasks, probe_result, last_finished>>
    /\ UNCHANGED <<execVars, configVars, proxyVars>>

\* A running probe ends before its timeout: with a response, with an error of
\* the connection, or by panicking (lib.rs:75-88).
ProbeAnswer(i) ==
    /\ i \in 1..Len(tasks)
    /\ tasks[i].outcome = ""
    /\ \E o \in ProbeAnswers : tasks' = [tasks EXCEPT ![i].outcome = o]
    /\ last_finished' = i
    /\ UNCHANGED <<probe_pc, urls, probe_result>>
    /\ UNCHANGED <<execVars, configVars, proxyVars>>

\* The 2.5 s timeout of a running probe expires: send() answers Err (lib.rs:75, 84-87).
ProbeTimeout(i) ==
    /\ i \in 1..Len(tasks)
    /\ tasks[i].outcome = ""
    /\ tasks' = [tasks EXCEPT ![i].outcome = "timeout"]
    /\ last_finished' = i
    /\ UNCHANGED <<probe_pc, urls, probe_result>>
    /\ UNCHANGED <<execVars, configVars, proxyVars>>

\* Every probe task has ended: join_all completes, the successes are
\* collected and returned (lib.rs:92-101).
ProbeReturn ==
    /\ probe_pc = "join"
    /\ \A i \in 1..Len(tasks) : tasks[i].outcome # ""
    /\ LET results == [i \in 1..Len(tasks) |-> ProbeResult(tasks[i].url, tasks[i].outcome)]
           successful_urls == filter_map(results)
       IN  probe_result' = Some([ok |-> TRUE, value |-> successful_urls])
    /\ probe_pc' = "done"
    /\ UNCHANGED <<urls, tasks, last_finished>>
    /\ UNCHANGED <<execVars, configVars, proxyVars>>

check_ollama_servers ==
    \/ ProbeCall
    \/ ProbeSpawn
    \/ ProbeJoin
    \/ \E i \in 1..MaxUrls : ProbeAnswer(i)
    \/ \E i \in 1..MaxUrls : ProbeTimeout(i)
    \/ ProbeReturn

NextProbe == check_ollama_servers
SpecProbe == Init /\ [][NextProbe]_vars

\* The runtime runs every task that can run, and the timer of a probe fires.
ProbeFairness ==
    /\ WF_vars(ProbeSpawn)
    /\ WF_vars(ProbeJoin)
    /\ WF_vars(ProbeReturn)
    /\ \A i \in 1..MaxUrls : WF_vars(ProbeTimeout(i))
SpecProbeFair == Init /\ [][NextProbe]_vars /\ ProbeFairness

\* ------------------------------------------------- all operations together
\* The handlers and commands that run() registers (lib.rs:345-419), served
\* next to calls of set_ollama_url.  The operations other than set share
\* nothing but the store, so one kind of them runs in a behaviour: gets and
\* proxied requests, or a command execution, or probe batches of at most
\* MaxBatch addresses.  The first call of a kind is accepted while the other
\* kinds are quiet.
ExecQuiet == \A e \in ExecIds : exec_pc[e] = "idle"
ProbeQuiet == probe_pc = "idle"
ReadersQuiet == (\A t \in Getters : get_pc[t] = "idle") /\ (\A p \in Proxies : proxy_pc[p] = "idle")

Next ==
    \/ set_ollama_url("s1")
    \/ ExecQuiet /\ ProbeQuiet /\ GetCall("g1")
    \/ GetLock("g1")
    \/ GetClone("g1")
    \/ ExecQuiet /\ ProbeQuiet /\ ProxyCall("p1")
    \/ ProxyLock("p1")
    \/ ProxyFormat("p1")
    \/ ProxyCollect("p1")
    \/ ProxySend("p1")
    \/ ProxyUpstream("p1")
    \/ ProbeQuiet /\ ReadersQuiet /\ ExecSubmit("e1", Commands2)
    \/ ExecReject("e1")
    \/ ExecSpawn("e1", StreamContents)
    \/ PollStdout("e1")
    \/ PollStderr("e1")
    \/ SelectElse("e1")
    \/ ExecWait("e1")
    \/ ExecEnd("e1")
    \/ ExecQuiet /\ ReadersQuiet /\ ProbeCall /\ Len(urls') <= MaxBatch
    \/ ProbeSpawn
    \/ ProbeJoin
    \/ \E i \in 1..MaxBatch : ProbeAnswer(i)
    \/ \E i \in 1..MaxBatch : ProbeTimeout(i)
    \/ ProbeReturn
Spec == Init /\ [][Next]_vars

\* ================================================================ claims
\* ------------------------------------------- what the claims speak about
\* The command line read by the words of the specification: the positions of
\* its whitespace, the maximal runs between them, the text of each run.
IsSpace(c, i) == c[i] \in {" ", "\t", "\n"}
TokenStarts(c) == {i \in 1..Len(c) : ~IsSpace(c, i) /\ (i = 1 \/ IsSpace(c, i - 1))}
TokenEnd(c, i) ==
    CHOOSE j \in i..Len(c) :
        /\ \A k \in i..j : ~IsSpace(c, k)
        /\ (j = Len(c) \/ IsSpace(c, j + 1))
RECURSIVE TextOf(_, _, _)
TextOf(c, i, j) == IF i > j THEN "" ELSE c[i] \o TextOf(c, i + 1, j)
NumTokens(c) == Cardinality(TokenStarts(c))
Token(c, k) ==
    LET i == CHOOSE x \in TokenStarts(c) : Cardinality({y \in TokenStarts(c) : y < x}) = k - 1
    IN  TextOf(c, i, TokenEnd(c, i))
ContainsForbidden(c) ==
    \E i \in 1..Len(c) : c[i] \in {"&", ";", "|", "<", ">", "(", ")", "U+0060", "$"}
IsAllowedSubcommand(t) ==
    t \in {"serve", "create", "show", "run", "stop", "pull", "push",
           "list", "ps", "cp", "rm", "help", "--version", "--help"}
PassesValidation(c) ==
    /\ ~ContainsForbidden(c)
    /\ NumTokens(c) >= 1
    /\ Token(c, 1) = "ollama"
    /\ NumTokens(c) >= 2 => IsAllowedSubcommand(Token(c, 2))
\* Why a command line is unauthorized, if it is.
Cause(c) ==
    IF ContainsForbidden(c) THEN "forbidden character"
    ELSE IF NumTokens(c) >= 1 /\ Token(c, 1) # "ollama" THEN "wrong program"
    ELSE IF NumTokens(c) >= 2 /\ ~IsAllowedSubcommand(Token(c, 2)) THEN "disallowed subcommand"
    ELSE "none"
UnauthorizedStream == <<[event |-> "error", data |-> <<"[unauthorized]">>]>>
IsTerminal(ev) == ev.event \in {"done", "error"}
Started(e) == exec_pc[e] \notin {"idle", "start"}
Ended(e) == exec_pc[e] = "done"

\* C1: a command line that contains a forbidden character, wherever it is and
\* whatever its tokens are, gets a stream of exactly one event, the error
\* event with the authorization-failure payload, and no process is spawned
\* for it at any time.
C1_ForbiddenCharRejected ==
    \A e \in ExecIds :
        (exec_pc[e] # "idle" /\ ContainsForbidden(cmd[e])) =>
            /\ spawned[e] = <<>>
            /\ stdout_reader[e] = <<>> /\ stderr_reader[e] = <<>>
            /\ events[e] = IF Started(e) THEN UnauthorizedStream ELSE <<>>

\* C1 witness: an otherwise valid command line with a forbidden character at
\* its end has been answered and its stream has ended.
C1_Witness ==
    /\ Ended("e1")
    /\ cmd["e1"] = <<"ollama", " ", "list", " ", "$">>
    /\ events["e1"] = UnauthorizedStream

\* C2: any two requests rejected as unauthorized, whatever the cause of each
\* (a forbidden character, a wrong program name, a disallowed subcommand),
\* have the same event stream: one event, same name, same payload.
C2_RejectionsIndistinguishable ==
    \A a, b \in ExecIds :
        (Ended(a) /\ Ended(b) /\ Cause(cmd[a]) # "none" /\ Cause(cmd[b]) # "none") =>
            /\ events[a] = events[b]
            /\ Len(events[a]) = 1

\* C2 witness: two ended requests rejected for different causes.
C2_Witness ==
    /\ Ended("e1") /\ Ended("e2")
    /\ Cause(cmd["e1"]) = "forbidden character"
    /\ Cause(cmd["e2"]) = "wrong program"

\* C3: a process is spawned only for a command line that passed every
\* validation step; a command line whose second token is not in the allow-list
\* gets the authorization-failure event and no spawn; the program name alone
\* is accepted and spawned with no arguments.
C3_SpawnOnlyAfterValidation ==
    \A e \in ExecIds :
        /\ spawned[e] # <<>> => PassesValidation(cmd[e])
        /\ (Started(e) /\ Cause(cmd[e]) = "disallowed subcommand") =>
              (events[e] = UnauthorizedStream /\ spawned[e] = <<>>)
        /\ (Started(e) /\ NumTokens(cmd[e]) = 1 /\ PassesValidation(cmd[e])) =>
              (Len(spawned[e]) = 1 /\ spawned[e][1].args = <<>>)

\* C3 witness: the program name alone has been spawned with no arguments.
C3_Witness ==
    /\ cmd["e1"] = <<"ollama">>
    /\ Len(spawned["e1"]) = 1
    /\ spawned["e1"][1].ok
    /\ spawned["e1"][1].args = <<>>

\* C4: for a command line that passes validation the process launcher is
\* called exactly once, with the authorized executable (no shell) and with an
\* argument vector that is the tokens after the first, in order, unmodified.
C4_ArgumentVector ==
    \A e \in ExecIds :
        /\ Len(spawned[e]) <= 1
        /\ (Started(e) /\ PassesValidation(cmd[e])) =>
              /\ Len(spawned[e]) = 1
              /\ spawned[e][1].program = "/usr/local/bin/ollama"
              /\ Len(spawned[e][1].args) = NumTokens(cmd[e]) - 1
              /\ \A k \in 1..Len(spawned[e][1].args) :
                    spawned[e][1].args[k] = Token(cmd[e], k + 1)

\* C4 witness: a command line with two arguments has been spawned with them.
C4_Witness ==
    /\ cmd["e1"] = <<"ollama", " ", "list", " ", "bogus">>
    /\ Len(spawned["e1"]) = 1
    /\ spawned["e1"][1].ok
    /\ spawned["e1"][1].args = <<"list", "bogus">>

\* C5: on every path, and whatever another execution is doing, a stream has
\* at most one terminal event (done or error), a terminal event is the last
\* event yielded (nothing is yielded after it), and a stream that has ended
\* has one.
C5_OneTerminalEvent ==
    \A e \in ExecIds :
        /\ \A i \in 1..Len(events[e]) : IsTerminal(events[e][i]) => i = Len(events[e])
        /\ exec_pc[e] \in {"yielded", "done"} =>
              (events[e] # <<>> /\ IsTerminal(events[e][Len(events[e])]))
        /\ exec_pc[e] \in {"start", "select", "wait"} =>
              \A i \in 1..Len(events[e]) : ~IsTerminal(events[e][i])

\* C5 witness: two runs of the same valid command line have both ended, each
\* after data events, one with done and one with the wait failure.
C5_Witness ==
    /\ Ended("e1") /\ Ended("e2")
    /\ cmd["e1"] = <<"ollama", " ", "list">> /\ cmd["e2"] = cmd["e1"]
    /\ Len(events["e1"]) > 1 /\ Len(events["e2"]) > 1
    /\ events["e1"][Len(events["e1"])].event = "done"
    /\ events["e2"][Len(events["e2"])].event = "error"

\* C6: get_ollama_url returns exactly the argument of the most recent
\* set_ollama_url (None if that argument was None or if nothing was set yet),
\* with no default substituted, also while other calls are in flight: the
\* value is always one that a set passed whole.
C6_GetReturnsLastSet ==
    [][\A t \in Getters :
          (get_pc[t] = "clone" /\ get_pc'[t] = "done") => get_result'[t] = last_set]_vars

\* C6 witness: a get has returned the address of the latest set while another
\* set, with another argument, is waiting for the lock; and the stored value
\* has been set back to None before.
C6_Witness ==
    /\ get_pc["g1"] = "done"
    /\ get_result["g1"] = <<"http://host:1234">>
    /\ last_set = <<"http://host:1234">>
    /\ \E t \in Setters : set_pc[t] = "lock" /\ new_url[t] = <<>>

\* The target the specification names: base, path, "?", query.
ExpectedTarget(stored, r) ==
    (IF stored = <<>> THEN "http://127.0.0.1:11434" ELSE stored[1])
        \o r.path \o "?" \o (IF r.query = <<>> THEN "" ELSE r.query[1])

\* C7: the target URL of a proxied request is the base address, the inbound
\* path, "?" and the inbound query string, where the base is the stored
\* upstream address when one is set and http://127.0.0.1:11434 when none is;
\* so too for a request without a query string.  The upstream request goes
\* to that URL.
C7_TargetUrl ==
    [][\A p \in Proxies :
          /\ (proxy_pc[p] = "format" /\ proxy_pc'[p] = "collect") =>
                target_url'[p] = ExpectedTarget(ollama_url, req[p])
          /\ (proxy_pc[p] = "send" /\ proxy_pc'[p] = "await") =>
                upstream_calls'[p] = <<target_url[p]>>
          /\ proxy_pc[p] \in {"collect", "send", "await"} =>
                target_url'[p] = target_url[p]]_vars

\* C7 witness: after a set of http://host:1234, a request to /api/tags?a=1
\* has been sent to http://host:1234/api/tags?a=1.
C7_Witness ==
    /\ last_set = <<"http://host:1234">>
    /\ req["p1"] = [path |-> "/api/tags", query |-> <<"a=1">>]
    /\ upstream_calls["p1"] = <<"http://host:1234/api/tags?a=1">>

\* How many probes of the batch got a 2xx response.
Successes == {i \in 1..Len(tasks) : tasks[i].outcome = "2xx"}

\* C8: the list check_ollama_servers returns holds exactly the input
\* addresses whose probe got a 2xx response: each of them is in it, a probe
\* that ended otherwise (another status, the timeout, a connection error, a
\* failed task) adds nothing to it, and the call answers Ok whatever failed.
C8_ExactlyTheSuccesses ==
    probe_pc = "done" =>
        /\ probe_result # <<>>
        /\ probe_result[1].ok
        /\ \A a \in Addrs :
              (\E k \in 1..Len(probe_result[1].value) : probe_result[1].value[k] = a)
                  <=> (\E i \in Successes : urls[i] = a)
        /\ \A k \in 1..Len(probe_result[1].value) : probe_result[1].value[k] \in Addrs
        /\ Len(probe_result[1].value) = Cardinality(Successes)

\* C8 witness: a batch of three has returned one address; the two other
\* probes ended with a non-2xx status and with a failed task.
C8_Witness ==
    /\ probe_pc = "done"
    /\ urls = <<"http://a:11434", "http://b:11434", "http://a:11434">>
    /\ tasks[1].outcome = "non-2xx"
    /\ tasks[2].outcome = "2xx"
    /\ tasks[3].outcome = "panic"
    /\ probe_result = <<[ok |-> TRUE, value |-> <<"http://b:11434">>]>>

\* C9: every probe of a batch is started before the batch awaits any result,
\* starting the next probe never waits for a probe that is running, the batch
\* returns only when every probe has ended, and a batch that was called
\* returns, also when a target never answers (its probe ends by its timeout).
C9_ConcurrentProbes ==
    /\ [](probe_pc = "join" => Len(tasks) = Len(urls))
    /\ []((probe_pc = "spawn" /\ Len(tasks) < Len(urls)) => ENABLED ProbeSpawn)
    /\ [](probe_pc = "done" =>
            (Len(tasks) = Len(urls) /\ \A i \in 1..Len(tasks) : tasks[i].outcome # ""))
    /\ (probe_pc = "spawn" ~> probe_pc = "done")

\* C9 witness: a later probe has got its answer while an earlier one is still
\* running and the batch is still starting probes.
C9_Witness ==
    /\ probe_pc = "spawn"
    /\ Len(urls) = 3
    /\ Len(tasks) = 2
    /\ tasks[1].outcome = ""
    /\ tasks[2].outcome = "2xx"

\* C10: a proxied request makes at most one upstream call, and when that call
\* cannot be completed (connection refused, timeout, DNS failure) the request
\* ends with 502 Bad Gateway and the call is not made again.
C10_BadGatewayNoRetry ==
    \A p \in Proxies :
        /\ Len(upstream_calls[p]) <= 1
        /\ upstream_outcome[p] \in {"connection refused", "timeout", "dns failure"} =>
              /\ proxy_pc[p] = "done"
              /\ response[p] = [ok |-> FALSE, status |-> 502]
              /\ Len(upstream_calls[p]) = 1

\* C10 witness: the upstream call of a request was refused and the request
\* has ended with 502.
C10_Witness ==
    /\ proxy_pc["p1"] = "done"
    /\ upstream_outcome["p1"] = "connection refused"
    /\ response["p1"].status = 502

\* C11: when the body of a proxied request cannot be read, the request is
\* answered with status 500 and no upstream call is made for it; the status
\* differs from the 502 of an upstream failure.
C11_BodyFailureNoUpstream ==
    /\ INTERNAL_SERVER_ERROR # BAD_GATEWAY
    /\ \A p \in Proxies :
          body[p] = "failed" =>
              /\ proxy_pc[p] = "done"
              /\ response[p] = [ok |-> FALSE, status |-> 500]
              /\ upstream_calls[p] = <<>>
              /\ upstream_outcome[p] = ""

\* C11 witness: a request that had computed its target failed to read its body
\* and was answered 500 without an upstream call.
C11_Witness ==
    \E p \in Proxies :
        /\ body[p] = "failed"
        /\ response[p].status = 500
        /\ target_url[p] # ""
        /\ upstream_calls[p] = <<>>

\* The events of a stream that carry a given name.
EventsNamed(e, name) == {i \in 1..Len(events[e]) : events[e][i].event = name}
SpawnFailed(e) == spawned[e] # <<>> /\ ~spawned[e][1].ok

\* C12: when the launcher fails to start the process, the stream is exactly
\* one error event that carries the reason of the spawn failure: no data
\* event and no done event is emitted, and nothing is read or waited for.
C12_SpawnFailureOneError ==
    \A e \in ExecIds :
        SpawnFailed(e) =>
            /\ \E err \in {"No such file or directory (os error 2)"} :
                  events[e] = <<[event |-> "error",
                                 data |-> <<"[ERROR: Failed to spawn command '",
                                            "/usr/local/bin/ollama", "'. Error: ", err, "]">>]>>
            /\ EventsNamed(e, "message") = {} /\ EventsNamed(e, "done") = {}
            /\ stdout_reader[e] = <<>> /\ stderr_reader[e] = <<>>
            /\ wait_result[e] = None
            /\ exec_pc[e] \in {"yielded", "done"}

\* C12 witness: the spawn of a valid command line failed and its stream ended.
C12_Witness ==
    /\ Ended("e1")
    /\ cmd["e1"] = <<"ollama", " ", "list">>
    /\ SpawnFailed("e1")
    /\ Len(events["e1"]) = 1

EmptyCommandStream == <<[event |-> "error", data |-> <<"Empty command received.">>]>>

\* C13: a command line without a forbidden character whose whitespace split
\* yields no token (empty or whitespace only) gets exactly one error event
\* with the empty-command payload, which differs from the payload of an
\* authorization failure, and no process is spawned for it.
C13_EmptyCommand ==
    /\ EmptyCommandStream # UnauthorizedStream
    /\ \A e \in ExecIds :
          (exec_pc[e] # "idle" /\ ~ContainsForbidden(cmd[e]) /\ NumTokens(cmd[e]) = 0) =>
              /\ spawned[e] = <<>>
              /\ stdout_reader[e] = <<>> /\ stderr_reader[e] = <<>>
              /\ events[e] = IF Started(e) THEN EmptyCommandStream ELSE <<>>

\* C13 witness: a command line of two spaces has been answered and its stream
\* has ended.
C13_Witness ==
    /\ Ended("e1")
    /\ cmd["e1"] = <<" ", " ">>
    /\ events["e1"] = EmptyCommandStream

\* The select loop of a spawned process has been left.
LoopLeft(e) == spawned[e] # <<>> /\ spawned[e][1].ok /\ exec_pc[e] \in {"wait", "yielded", "done"}
\* A reader still holds a line it could deliver as a data event.
HasLinesToDeliver(q) == \E i \in 1..Len(q) : q[i].utf8
ReadErrorFree(e) == \A s \in 1..2 : \A i \in 1..Len(written[e][s]) : written[e][s][i].utf8

\* C14: the select loop is left, and so the process is waited for and the
\* terminal event is emitted, only after both stdout and stderr are exhausted:
\* in no execution does either stream still have lines to deliver at that
\* time, whatever the order in which the two streams end or fail to yield a
\* line.
C14_LoopLeftOnlyWhenExhausted ==
    \A e \in ExecIds :
        LoopLeft(e) =>
            /\ ~HasLinesToDeliver(stdout_reader[e])
            /\ ~HasLinesToDeliver(stderr_reader[e])

\* C14 failing run: the done event has been emitted and the stream has ended
\* while stdout still holds a line that was never read; stderr was silent.
C14_Witness ==
    /\ Ended("e1")
    /\ EventsNamed("e1", "done") # {}
    /\ written["e1"][2] = <<>>
    /\ HasLinesToDeliver(stdout_reader["e1"])

\* C14, for the processes all of whose lines are valid UTF-8: the loop is left
\* only with both readers at the end of their streams.
C14_ExhaustedWithoutReadError ==
    \A e \in ExecIds :
        (LoopLeft(e) /\ ReadErrorFree(e)) => stdout_reader[e] = <<>> /\ stderr_reader[e] = <<>>

\* The texts of the lines of q that are valid UTF-8, in order.
RECURSIVE ValidTexts(_)
ValidTexts(q) ==
    IF q = <<>> THEN <<>>
    ELSE (IF Head(q).utf8 THEN <<Head(q).text>> ELSE <<>>) \o ValidTexts(Tail(q))
\* The texts of the data events of a stream that come from stream s, in order.
RECURSIVE DataTexts(_, _)
DataTexts(evs, s) ==
    IF evs = <<>> THEN <<>>
    ELSE (IF Head(evs).event = "message" /\ Head(evs).data[1] = s THEN <<Head(evs).data>> ELSE <<>>)
            \o DataTexts(Tail(evs), s)
WrittenTo(e, s) == IF s = "stdout" THEN written[e][1] ELSE written[e][2]
LeftIn(e, s) == IF s = "stdout" THEN stdout_reader[e] ELSE stderr_reader[e]
Consumed(e, s) == SubSeq(WrittenTo(e, s), 1, Len(WrittenTo(e, s)) - Len(LeftIn(e, s)))

\* C15: the lines of stdout are emitted in the order the process wrote them,
\* and so are the lines of stderr; every completed line of either stream is
\* emitted as exactly one data event: none is lost, duplicated or reordered.
\* Read here for the lines that can be emitted at all, those of valid UTF-8.
C15_EveryLineOnceInOrder ==
    \A e \in ExecIds : \A s \in {"stdout", "stderr"} :
        /\ DataTexts(events[e], s) = ValidTexts(Consumed(e, s))
        /\ LoopLeft(e) => DataTexts(events[e], s) = ValidTexts(WrittenTo(e, s))

\* C15 failing run: the process wrote to stdout a line that is not valid UTF-8
\* and then a valid line; the stream has ended with the done event and
\* without a data event for the valid line.
C15_Witness ==
    /\ Ended("e1")
    /\ EventsNamed("e1", "done") # {}
    /\ written["e1"] = <<<<Line("stdout", 1, FALSE), Line("stdout", 2, TRUE)>>, <<>>>>
    /\ EventsNamed("e1", "message") = {}

\* C15, the part about order and duplication alone: at any time the data
\* events of a stream are the valid lines read from it so far, in order.
C15_EmittedIsWhatWasRead ==
    \A e \in ExecIds : \A s \in {"stdout", "stderr"} :
        DataTexts(events[e], s) = ValidTexts(Consumed(e, s))

\* C16: when waiting for the exit of the process fails, the stream ends with
\* exactly one error event in the place of the done event; no stream holds
\* both a done event and an error event; a done event appears only when the
\* exit status was retrieved, and carries the exit code or the marker of none.
C16_WaitFailure ==
    \A e \in ExecIds :
        /\ EventsNamed(e, "done") = {} \/ EventsNamed(e, "error") = {}
        /\ EventsNamed(e, "done") # {} =>
              /\ wait_result[e] # None /\ wait_result[e][1].ok
              /\ wait_result[e][1].value \in {"Some(0)", "None"}
              /\ EventsNamed(e, "done") = {Len(events[e])}
              /\ events[e][Len(events[e])].data =
                     <<"[COMMAND_FINISHED code=", wait_result[e][1].value, "]">>
        /\ (wait_result[e] # None /\ ~wait_result[e][1].ok) =>
              /\ EventsNamed(e, "error") = {Len(events[e])}
              /\ events[e][Len(events[e])].data =
                     <<"[ERROR: Failed to wait for command. Error: ", wait_result[e][1].value, "]">>
        /\ (wait_result[e] # None /\ wait_result[e][1].ok) => EventsNamed(e, "done") # {}

\* C16 witness: the process wrote a line, both streams ended, and the wait for
\* its exit failed; the stream has ended.
C16_Witness ==
    /\ Ended("e1")
    /\ wait_result["e1"] # None /\ ~wait_result["e1"][1].ok
    /\ EventsNamed("e1", "message") # {}
    /\ EventsNamed("e1", "error") # {}

\* C17: a proxied request reads the stored address exactly once, before it
\* reads its body and before its upstream call; a set that takes effect after
\* that read changes neither the target URL nor the response of the request
\* in flight; a request targets the address that was stored when it took its
\* snapshot, so only requests that read after the set target the new address.
C17_SnapshotOnce ==
    /\ [](\A p \in Proxies :
            /\ Len(snapshots[p]) <= 1
            /\ (body[p] # "" \/ upstream_calls[p] # <<>>) => Len(snapshots[p]) = 1
            /\ \A i \in 1..Len(upstream_calls[p]) :
                  upstream_calls[p][i] = ExpectedTarget(snapshots[p][1], req[p]))
    /\ [][\A p \in Proxies :
            /\ snapshots'[p] # snapshots[p] =>
                  snapshots'[p] = <<>> \/ snapshots'[p] = <<last_set>>
            /\ ollama_url' # ollama_url =>
                  /\ snapshots'[p] = snapshots[p]
                  /\ target_url'[p] = target_url[p]
                  /\ upstream_calls'[p] = upstream_calls[p]
                  /\ response'[p] = response[p]]_vars

\* C17 witness: a request took its snapshot of http://host:1234, a set of
\* http://other:8080 took effect after that, and the upstream call of the
\* request has gone to the old address.
C17_Witness ==
    /\ proxy_pc["p1"] = "await"
    /\ snapshots["p1"] = <<<<"http://host:1234">>>>
    /\ ollama_url = <<"http://other:8080">>
    /\ req["p1"] = [path |-> "/api/tags", query |-> <<>>]
    /\ upstream_calls["p1"] = <<"http://host:1234/api/tags?">>

\* The steps at which a task is suspended on I/O: the read of the request
\* body and the upstream call of a proxied request.
AtSuspensionPoint(p) == proxy_pc[p] \in {"collect", "await"}

\* C18: no task holds the lock of the store at a suspension point: the holder
\* is always at the one memory step that ends its critical section, that step
\* is enabled, and it releases the lock; so a get or a set is never kept
\* waiting for the length of a network call, and no deadlock on the lock is
\* reachable.
C18_NoLockAcrossSuspension ==
    /\ [](/\ mutex \in {"free"} \cup Setters \cup Getters \cup Proxies
          /\ \A p \in Proxies :
                /\ proxy_pc[p] # "format" => mutex # p
                /\ mutex = p => ENABLED ProxyFormat(p)
          /\ \A t \in Setters :
                /\ set_pc[t] # "assign" => mutex # t
                /\ mutex = t => ENABLED SetAssign(t)
          /\ \A t \in Getters :
                /\ get_pc[t] # "clone" => mutex # t
                /\ mutex = t => ENABLED GetClone(t)
          /\ mutex = "free" =>
                /\ \A t \in Setters : set_pc[t] = "lock" => ENABLED SetLock(t)
                /\ \A t \in Getters : get_pc[t] = "lock" => ENABLED GetLock(t)
                /\ \A p \in Proxies : proxy_pc[p] = "lock" => ENABLED ProxyLock(p))
    /\ [][/\ \A p \in Proxies : (mutex = p /\ proxy_pc'[p] # proxy_pc[p]) => mutex' = "free"
          /\ \A t \in Setters : (mutex = t /\ set_pc'[t] # set_pc[t]) => mutex' = "free"
          /\ \A t \in Getters : (mutex = t /\ get_pc'[t] # get_pc[t]) => mutex' = "free"]_vars

\* C18 witness: the upstream call of a proxied request is in flight while a
\* set holds the lock and a get waits for it.
C18_Witness ==
    /\ AtSuspensionPoint("p1") /\ proxy_pc["p1"] = "await"
    /\ mutex \in Setters
    /\ get_pc["g1"] = "lock"

\* The position in the input of the k-th probe that got a 2xx response.
KthSuccess(k) == CHOOSE i \in Successes : Cardinality({j \in Successes : j < i}) = k - 1

\* C20: the list check_ollama_servers returns is a subsequence of its input:
\* the successful addresses in the relative order of the input, whatever the
\* order in which the probes ended; an address that occurs k times in the
\* input and got a 2xx response each time occurs k times; nothing is removed
\* as a duplicate and nothing is in the list that is not in the input.
C20_InputOrderSubsequence ==
    probe_pc = "done" =>
        /\ probe_result # <<>>
        /\ Len(probe_result[1].value) = Cardinality(Successes)
        /\ \A k \in 1..Len(probe_result[1].value) :
              probe_result[1].value[k] = urls[KthSuccess(k)]

\* C20 witness: a batch of three with a repeated address, all answered 2xx,
\* the first probe ending last: the list is the input, repetition included.
C20_Witness ==
    /\ probe_pc = "done"
    /\ urls = <<"http://b:11434", "http://a:11434", "http://b:11434">>
    /\ Successes = {1, 2, 3}
    /\ last_finished = 1
    /\ probe_result[1].value = <<"http://b:11434", "http://a:11434", "http://b:11434">>

\* C19: the stored address changes only in the assignment of set_ollama_url,
\* to the argument of that call; every step of a get, of a proxied request
\* whatever its outcome, of a command execution whatever its outcome, and of
\* a probe batch leaves it as it was; a command execution and a probe batch
\* do not take the lock either, what they do is fixed by their own input
\* (the program and arguments come from the command line, each probe goes to
\* its input address), and their next step is enabled whatever the stored
\* value and whoever holds the lock.
C19_OnlySetWrites ==
    /\ [][/\ ollama_url' # ollama_url =>
                \E t \in Setters :
                    /\ set_pc[t] = "assign" /\ set_pc'[t] = "idle"
                    /\ ollama_url' = new_url[t]
          /\ (execVars' # execVars \/ probeVars' # probeVars \/ proxyVars' # proxyVars
                \/ get_pc' # get_pc \/ get_result' # get_result) =>
                ollama_url' = ollama_url
          /\ (execVars' # execVars \/ probeVars' # probeVars) => mutex' = mutex]_vars
    /\ [](/\ \A e \in ExecIds :
                /\ spawned[e] # <<>> =>
                      /\ spawned[e][1].program = "/usr/local/bin/ollama"
                      /\ spawned[e][1].args =
                             [k \in 1..(NumTokens(cmd[e]) - 1) |-> Token(cmd[e], k + 1)]
                /\ exec_pc[e] = "start" => ENABLED exec_handler(e, {}, StreamContents)
                /\ exec_pc[e] \in {"select", "wait", "yielded"} =>
                      ENABLED exec_handler(e, {}, {})
          /\ \A i \in 1..Len(tasks) :
                tasks[i].url = urls[i] /\ tasks[i].check_url = urls[i] \o "/v1/models"
          /\ probe_pc = "spawn" => ENABLED (ProbeSpawn \/ ProbeJoin)
          /\ probe_pc = "join" =>
                ENABLED (ProbeReturn \/ \E i \in 1..Len(tasks) : ProbeTimeout(i)))

\* C19 witness: after a set of http://host:1234 a get has returned and a
\* proxied request has failed with 502 while a second set, of None, waits for
\* the lock: the stored address is still the one of the first set.
C19_Witness ==
    /\ ollama_url = <<"http://host:1234">>
    /\ get_pc["g1"] = "done"
    /\ proxy_pc["p1"] = "done" /\ response["p1"].status = 502
    /\ set_pc["s1"] = "lock" /\ new_url["s1"] = <<>>

====
